---- MODULE Spec2Model ----
(***************************************************************************)
(* A model of the wvsee dashboard: the data-access layer                   *)
(* (src/lib/weaviate.ts), the route handler of /api/collection/[name]      *)
(* (GET and DELETE) and the dashboard page (src/app/page.tsx).             *)
(*                                                                         *)
(* Text is a sequence of tokens: "/", "?", "&" and "=" are the separator   *)
(* characters of a URL, every other token is an atomic run of characters.  *)
(* A class name is text too, so that a name cut out of a URL can be        *)
(* compared with a name of the schema.  An error is its message (text).    *)
(* A JSON object is a record/function; a missing key is a key that is not  *)
(* in its DOMAIN.                                                          *)
(***************************************************************************)
EXTENDS Integers, Sequences, FiniteSets, TLC

VARIABLES h, db

vars == <<h, db>>

\* ---------------------------------------------------------------- bounds
MaxClasses == 2
MaxCount == 1
MaxRows == 2

\* ------------------------------------------------------------- JSON, text
Undefined == "undefined"
NoText == <<>>

Has(obj, key) == key \in DOMAIN obj

Return(v) == [st |-> "ok", val |-> v, err |-> NoText]
Throw(msg) == [st |-> "throw", val |-> <<>>, err |-> msg]
Pending == [st |-> "pending", val |-> <<>>, err |-> NoText]

TypeErrorMessage == <<"Cannot read properties of undefined">>
SyntaxErrorMessage == <<"Unexpected token in JSON">>
FetchFailedMessage == <<"fetch failed">>

\* Index of the first occurrence of token sep in s, or 0.
RECURSIVE IndexFrom(_, _, _)
IndexFrom(s, sep, k) ==
  IF k > Len(s) THEN 0
  ELSE IF s[k] = sep THEN k
  ELSE IndexFrom(s, sep, k + 1)

IndexOf(s, sep) == IndexFrom(s, sep, 1)

\* String.prototype.split(sep): the pieces between the separators; a text
\* without separator is one piece, an empty text one empty piece.
RECURSIVE Split(_, _)
Split(s, sep) ==
  LET k == IndexOf(s, sep) IN
  IF k = 0 THEN <<s>>
  ELSE <<SubSeq(s, 1, k - 1)>> \o Split(SubSeq(s, k + 1, Len(s)), sep)

\* Array.prototype.pop() of a non-empty array: its last element.
Pop(a) == a[Len(a)]

\* ------------------------------------------------------------------ URLs
Origin == <<"http:", "/", "/", "host">>
Route == <<"/", "api", "/", "collection", "/">>

\* new URL(u).pathname: what follows the origin, up to the query string.
Pathname(u) ==
  LET q == IndexOf(u, "?")
      noQuery == IF q = 0 THEN u ELSE SubSeq(u, 1, q - 1)
  IN SubSeq(noQuery, Len(Origin) + 1, Len(noQuery))

\* new URL(u).searchParams.get(key): the value of the first pair of the
\* query string whose key is `key`.  The code only tests the value for
\* truthiness, so null (no such pair) and "" are both the empty text.
RECURSIVE FirstValue(_, _)
FirstValue(pairs, key) ==
  IF pairs = <<>> THEN NoText
  ELSE LET p == Head(pairs)
           e == IndexOf(p, "=")
           k == IF e = 0 THEN p ELSE SubSeq(p, 1, e - 1)
           v == IF e = 0 THEN NoText ELSE SubSeq(p, e + 1, Len(p))
       IN IF k = <<key>> THEN v ELSE FirstValue(Tail(pairs), key)

SearchParamsGet(u, key) ==
  LET q == IndexOf(u, "?") IN
  IF q = 0 THEN NoText
  ELSE FirstValue(Split(SubSeq(u, q + 1, Len(u)), "&"), key)

\* ------------------------------------------------- the database's answers
ClassNames == {<<"A">>, <<"B">>, <<"C">>}

\* One class of the /v1/schema response: description and properties are
\* optional keys.
SchemaClass(c) ==
  CASE c = <<"A">> -> [class |-> c, description |-> "about A",
                       properties |-> <<[name |-> "title"]>>]
    [] c = <<"B">> -> [class |-> c]
    [] OTHER -> [class |-> c, properties |-> <<[name |-> "p"], [name |-> "q"]>>]

\* The class lists a schema can declare: class names are unique in a schema.
ClassLists ==
  UNION { { s \in [1..n -> ClassNames] :
              \A a, b \in 1..n : a # b => s[a] # s[b] } : n \in 0..MaxClasses }

\* What a fetch can end in: the request fails on the network, the status is
\* not 2xx, the body is no JSON, or a JSON body arrives.
FetchFailures == {"network", "http", "badjson"}

StatusText == "Internal Server Error"

\* Answers to GET /v1/schema: <<tag, class list>>.
SchemaAnswers ==
  {<<t, <<>> >> : t \in FetchFailures \cup {"noclasses"}}
    \cup {<<"classes", s>> : s \in ClassLists}

SchemaBody(a) ==
  IF a[1] = "classes"
  THEN [classes |-> [k \in 1..Len(a[2]) |-> SchemaClass(a[2][k])]]
  ELSE <<>>

\* Answers to an Aggregate query: <<tag, count>>.
AggregateAnswers ==
  {<<t, 0>> : t \in FetchFailures \cup {"nodata", "noaggregate", "noentry", "empty"}}
    \cup {<<"count", n>> : n \in 0..MaxCount}

AggregateBody(a, className) ==
  CASE a[1] = "nodata" -> [errors |-> "e"]
    [] a[1] = "noaggregate" -> [data |-> <<>>]
    [] a[1] = "noentry" -> [data |-> [Aggregate |-> <<>>]]
    [] a[1] = "empty" -> [data |-> [Aggregate |-> [k \in {className} |-> <<>>]]]
    [] a[1] = "count" ->
         [data |-> [Aggregate |-> [k \in {className} |-> <<[meta |-> [count |-> a[2]]]>>]]]
    [] OTHER -> <<>>

\* Answers to a Get query: <<tag, rows>>; a row is the value of its fields,
\* and the rows of a class are distinct objects.
Row(k) == <<"row", k>>

RowLists == { [k \in 1..n |-> Row(k)] : n \in 0..MaxRows }

GetAnswers ==
  {<<t, <<>> >> : t \in FetchFailures \cup {"nodata", "noget", "noentry"}}
    \cup {<<"rows", s>> : s \in RowLists}

GetBody(a, className) ==
  CASE a[1] = "nodata" -> [errors |-> "e"]
    [] a[1] = "noget" -> [data |-> <<>>]
    [] a[1] = "noentry" -> [data |-> [Get |-> <<>>]]
    [] a[1] = "rows" -> [data |-> [Get |-> [k \in {className} |-> a[2]]]]
    [] OTHER -> <<>>

\* Answers of the database's class-delete primitive.
DeleteAnswers == {<<"ok", <<>> >>, <<"fail", <<>> >>}

\* The outbound requests.
SchemaRequest == [kind |-> "schema", class |-> NoText, fields |-> <<>>]
AggregateQuery(className) ==
  [kind |-> "Aggregate", class |-> className, fields |-> <<"meta", "count">>]
DeleteRequest(name) == [kind |-> "delete", class |-> name, fields |-> <<>>]

AnswersTo(q) ==
  CASE q.kind = "schema" -> SchemaAnswers
    [] q.kind = "Aggregate" -> AggregateAnswers
    [] q.kind = "Get" -> GetAnswers
    [] OTHER -> DeleteAnswers

\* ------------------------------------------------- src/lib/weaviate.ts
\* executeQuery / executeAggregateQuery: what awaiting the call yields for
\* the answer a of the database: the parsed body, or the error thrown.
executeQuery(a, className) ==
  CASE a[1] = "network" -> Throw(FetchFailedMessage)
    [] a[1] = "http" -> Throw(<<"Query failed: ", StatusText>>)
    [] a[1] = "badjson" -> Throw(SyntaxErrorMessage)
    [] OTHER -> Return(GetBody(a, className))

executeAggregateQuery(a, className) ==
  CASE a[1] = "network" -> Throw(FetchFailedMessage)
    [] a[1] = "http" -> Throw(<<"Query failed: ", StatusText>>)
    [] a[1] = "badjson" -> Throw(SyntaxErrorMessage)
    [] OTHER -> Return(AggregateBody(a, className))

\* getObjectCount: the catch covers the call alone; reading
\* aggregateResponse?.data.Aggregate[className] is outside it, and throws a
\* TypeError when data or data.Aggregate is missing.
getObjectCount(className, a) ==
  LET r == executeAggregateQuery(a, className) IN
  IF r.st = "throw" THEN Return(0)
  ELSE LET aggregateResponse == r.val IN
    IF ~Has(aggregateResponse, "data") THEN Throw(TypeErrorMessage)
    ELSE IF ~Has(aggregateResponse.data, "Aggregate") THEN Throw(TypeErrorMessage)
    ELSE LET agg == aggregateResponse.data.Aggregate
             aggregateData == IF className \in DOMAIN agg THEN agg[className] ELSE <<>>
         IN IF /\ Len(aggregateData) >= 1
               /\ Has(aggregateData[1], "meta")
               /\ Has(aggregateData[1].meta, "count")
            THEN Return(aggregateData[1].meta.count)
            ELSE Return(0)

\* A variant of fetchSchema that takes a failed schema fetch for an empty
\* schema.
fetchSchema_swallowed(a) ==
  IF a[1] = "classes" THEN Return(SchemaBody(a).classes) ELSE Return(<<>>)

\* getCollections, lines 199-207: the classes of the schema, or the error.
fetchSchema(a) ==
  CASE a[1] = "network" -> Throw(FetchFailedMessage)
    [] a[1] = "http" -> Throw(<<"Failed to fetch schema: ", StatusText>>)
    [] a[1] = "badjson" -> Throw(SyntaxErrorMessage)
    [] OTHER -> LET schema == SchemaBody(a) IN
                Return(IF Has(schema, "classes") THEN schema.classes ELSE <<>>)

\* getCollections, lines 212-219: the entry pushed for one class.
CollectionInfo(weavClass, count) ==
  [name |-> weavClass.class,
   description |-> IF Has(weavClass, "description") THEN weavClass.description
                   ELSE Undefined,
   count |-> count,
   properties |-> IF Has(weavClass, "properties")
                  THEN [k \in 1..Len(weavClass.properties) |->
                          [name |-> weavClass.properties[k].name]]
                  ELSE <<>>]

\* A variant of GetQueryString that writes the sort directive, the third
\* argument, into the query.
GetQueryString_sorted(args) ==
  [kind |-> "Get",
   class |-> IF args[3] = <<>> THEN args[1]
             ELSE args[1] \o <<"(sort:">> \o args[3][1] \o args[3][2] \o <<")">>,
   fields |-> [k \in 1..Len(args[2]) |-> args[2][k].name]]

\* getCollectionData, lines 3-9: the query text.  The function declares two
\* parameters; a third argument of a call is dropped.
GetQueryString(args) ==
  [kind |-> "Get", class |-> args[1],
   fields |-> [k \in 1..Len(args[2]) |-> args[2][k].name]]

\* A variant of getCollectionData that returns no rows for a body without
\* data.Get.
getCollectionData_lenient(className, a) ==
  LET r == executeQuery(a, className) IN
  IF r.st = "throw" THEN r
  ELSE IF /\ Has(r.val, "data") /\ Has(r.val.data, "Get")
          /\ className \in DOMAIN r.val.data.Get
       THEN Return(r.val.data.Get[className])
       ELSE Return(<<>>)

\* getCollectionData, lines 10-20: what the call yields for the answer a.
getCollectionData(className, a) ==
  LET r == executeQuery(a, className) IN
  IF r.st = "throw" THEN r
  ELSE LET response == r.val IN
    IF ~Has(response, "data") \/ ~Has(response.data, "Get")
    THEN Throw(<<"Invalid response structure from Weaviate">>)
    ELSE IF className \in DOMAIN response.data.Get
         THEN Return(response.data.Get[className])
         ELSE Return(<<>>)

\* ------------------------------------------------------- a run's state
\* The page's error state: null, or the message shown.
Null == [isNull |-> TRUE, message |-> NoText]
Message(m) == [isNull |-> FALSE, message |-> m]

\* One run is one request to the route handler (GET, DELETE) or one load
\* of the dashboard page (PAGE).
InitRun(kind, url) ==
  [kind |-> kind, url |-> url, pc |-> "start",
   name |-> NoText, sortProperty |-> NoText, sortOrder |-> NoText,
   calls |-> 0, classes |-> <<>>, i |-> 1, result |-> <<>>, gc |-> Pending,
   gd |-> Pending, del |-> Pending,
   log |-> <<>>, out |-> <<>>, resp |-> <<>>,
   loading |-> TRUE, error |-> Null, collections |-> <<>>]

\* fetch(...): the request leaves, and is outstanding until it settles.
Issue(rec, q) == [rec EXCEPT !.log = Append(@, q), !.out = Append(@, q)]

Settled(rec) == [rec EXCEPT !.out = <<>>]

\* The database answers q with a; it answers a request it has already
\* answered the same way (one database state for the whole behaviour).
Answers(q, a) ==
  /\ a \in AnswersTo(q)
  /\ q \in DOMAIN db => a = db[q]
  /\ db' = [x \in DOMAIN db \cup {q} |-> IF x = q THEN a ELSE db[x]]

\* NextResponse.json(body, {status}): the handler returns.
Respond(rec, status, body) ==
  [rec EXCEPT !.resp = Append(@, [status |-> status, body |-> body]),
              !.pc = "done"]

\* getCollections(), line 199: the call runs up to its first await.
CallGetCollections(rec) ==
  [Issue(rec, SchemaRequest) EXCEPT !.pc = "schema", !.calls = @ + 1,
                                    !.gc = Pending]

\* getCollections, lines 210-222: the next turn of the loop, up to the next
\* await, or the return of the result.
LoopStep(rec) ==
  IF rec.i > Len(rec.classes)
  THEN [rec EXCEPT !.gc = Return(rec.result), !.pc = "gc_return"]
  ELSE [Issue(rec, AggregateQuery(rec.classes[rec.i].class)) EXCEPT
          !.pc = "aggregate"]

\* getCollections, lines 199-208 and 223-234: the schema request settles.
getCollections_schema(r) ==
  /\ h[r].pc = "schema"
  /\ \E a \in SchemaAnswers :
       /\ Answers(SchemaRequest, a)
       /\ LET res == fetchSchema(a)
              rec == Settled(h[r])
          IN h' = [h EXCEPT ![r] =
                     IF res.st = "throw"
                     THEN [rec EXCEPT !.gc = res, !.pc = "gc_return"]
                     ELSE LoopStep([rec EXCEPT !.classes = res.val, !.i = 1,
                                               !.result = <<>>])]

\* getCollections, lines 211-220, with getObjectCount: an aggregate request
\* settles.
getCollections_count(r) ==
  /\ h[r].pc = "aggregate"
  /\ LET weavClass == h[r].classes[h[r].i] IN
     \E a \in AggregateAnswers :
       /\ Answers(AggregateQuery(weavClass.class), a)
       /\ LET count == getObjectCount(weavClass.class, a)
              rec == Settled(h[r])
          IN h' = [h EXCEPT ![r] =
                     IF count.st = "throw"
                     THEN [rec EXCEPT !.gc = count, !.pc = "gc_return"]
                     ELSE LoopStep([rec EXCEPT
                            !.result = Append(@, CollectionInfo(weavClass, count.val)),
                            !.i = @ + 1])]

\* ------------------------------------- route.ts: /api/collection/[name]
\* collections.find((c) => c.name === name): the index of the first entry
\* of that name, 0 when there is none.
RECURSIVE FindFrom(_, _, _)
FindFrom(collections, name, k) ==
  IF k > Len(collections) THEN 0
  ELSE IF collections[k].name = name THEN k
  ELSE FindFrom(collections, name, k + 1)

\* A variant of Find that falls back to the first entry.
Find_orFirst(collections, name) ==
  LET k == FindFrom(collections, name, 1) IN
  IF k = 0 /\ Len(collections) > 0 THEN 1 ELSE k

Find(collections, name) == FindFrom(collections, name, 1)

\* GET, lines 59-66: the arguments of the call of getCollectionData.
DataArguments(name, collectionInfo, sortProperty, sortOrder) ==
  <<name,
    [k \in 1..Len(collectionInfo.properties) |->
       [name |-> collectionInfo.properties[k].name, dataType |-> <<"string">>]],
    IF sortProperty # NoText /\ sortOrder # NoText
    THEN <<sortProperty, sortOrder>> ELSE <<>> >>

\* A variant of ErrorPayload that drops the message thrown.
ErrorPayload_generic(error, thrown) == [error |-> error, details |-> <<"Unknown error">>]

\* The body of a 500 response: a generic error and the message thrown.
ErrorPayload(error, thrown) == [error |-> error, details |-> thrown.err]

\* GET, lines 39-50: the name and the sort parameters are read from the URL;
\* no name ends in 400, else getCollections is called.
GET_begin(r) ==
  /\ h[r].kind = "GET" /\ h[r].pc = "start"
  /\ LET url == h[r].url
         name == Pop(Split(Pathname(url), "/"))
         rec == [h[r] EXCEPT !.name = name,
                             !.sortProperty = SearchParamsGet(url, "sortProperty"),
                             !.sortOrder = SearchParamsGet(url, "sortOrder")]
     IN h' = [h EXCEPT ![r] =
                IF name = NoText
                THEN Respond(rec, 400, [error |-> "Collection name is required"])
                ELSE CallGetCollections(rec)]
  /\ UNCHANGED db

\* GET, lines 50-66 and 70-86: getCollections has settled.
GET_collections(r) ==
  /\ h[r].kind = "GET" /\ h[r].pc = "gc_return"
  /\ LET rec == h[r]
         k == Find(rec.gc.val, rec.name)
     IN h' = [h EXCEPT ![r] =
                IF rec.gc.st = "throw"
                THEN Respond(rec, 500, ErrorPayload("Failed to fetch data", rec.gc))
                ELSE IF k = 0
                THEN Respond(rec, 404, [error |-> "Collection not found"])
                ELSE [Issue(rec, GetQueryString(DataArguments(rec.name, rec.gc.val[k],
                                   rec.sortProperty, rec.sortOrder)))
                        EXCEPT !.pc = "data"]]
  /\ UNCHANGED db

\* GET, lines 59-86, with getCollectionData, lines 10-20: the Get query
\* settles.
GET_data(r) ==
  /\ h[r].kind = "GET" /\ h[r].pc = "data"
  /\ \E a \in GetAnswers :
       /\ Answers(h[r].out[1], a)
       /\ LET gd == getCollectionData(h[r].name, a)
              rec == [Settled(h[r]) EXCEPT !.gd = gd]
          IN h' = [h EXCEPT ![r] =
                     IF gd.st = "throw"
                     THEN Respond(rec, 500, ErrorPayload("Failed to fetch data", gd))
                     ELSE Respond(rec, 200, [data |-> gd.val])]

\* deleteCollection(name): the database's class-delete primitive; it fails
\* with whatever error the primitive raises.
deleteCollection(a) ==
  IF a[1] = "ok" THEN Return(<<>>) ELSE Throw(<<"delete failed">>)

\* DELETE, lines 13-18: the name is the last piece of the whole URL.
DELETE_begin(r) ==
  /\ h[r].kind = "DELETE" /\ h[r].pc = "start"
  /\ LET name == Pop(Split(h[r].url, "/"))
         rec == [h[r] EXCEPT !.name = name]
     IN h' = [h EXCEPT ![r] =
                IF name = NoText
                THEN Respond(rec, 400, [error |-> "Collection name is required"])
                ELSE [Issue(rec, DeleteRequest(name)) EXCEPT !.pc = "delete"]]
  /\ UNCHANGED db

\* DELETE, lines 18-33: deleteCollection has settled.
DELETE_settled(r) ==
  /\ h[r].kind = "DELETE" /\ h[r].pc = "delete"
  /\ \E a \in DeleteAnswers :
       /\ Answers(h[r].out[1], a)
       /\ LET del == deleteCollection(a)
              rec == [Settled(h[r]) EXCEPT !.del = del]
          IN h' = [h EXCEPT ![r] =
                     IF del.st = "throw"
                     THEN Respond(rec, 500, ErrorPayload("Failed to delete collection", del))
                     ELSE Respond(rec, 200, [success |-> TRUE])]

\* ------------------------------------------------------ src/app/page.tsx
\* Home, lines 12-17 and 35: the mount effect runs fetchCollections up to
\* its await.
Home_mount(r) ==
  /\ h[r].kind = "PAGE" /\ h[r].pc = "start"
  /\ h' = [h EXCEPT ![r] = CallGetCollections([h[r] EXCEPT !.loading = TRUE])]
  /\ UNCHANGED db

\* A variant of fetchCollections that clears loading in the try block only.
fetchCollections_noFinally(rec, gc) ==
  IF gc.st = "throw"
  THEN [rec EXCEPT !.error = Message(gc.err)]
  ELSE [rec EXCEPT !.collections = gc.val, !.error = Null, !.loading = FALSE]

\* fetchCollections, lines 17-33: the state after getCollections settled.
fetchCollections(rec, gc) ==
  IF gc.st = "throw"
  THEN [rec EXCEPT !.error = Message(gc.err), !.loading = FALSE]
  ELSE [rec EXCEPT !.collections = gc.val, !.error = Null, !.loading = FALSE]

fetchCollections_settled(r) ==
  /\ h[r].kind = "PAGE" /\ h[r].pc = "gc_return"
  /\ h' = [h EXCEPT ![r] = [fetchCollections(h[r], h[r].gc) EXCEPT !.pc = "done"]]
  /\ UNCHANGED db

\* Home, lines 44-56: what is rendered.
View(rec) == IF rec.loading THEN "spinner" ELSE "list"

Banner(rec) == ~rec.error.isNull /\ rec.error.message # NoText

\* ------------------------------------------------------- specifications
Names == {NoText, <<"A">>, <<"Z">>}

SortQuery == <<"sortProperty", "=", "title", "&", "sortOrder", "=", "asc">>
PathQuery == <<"sortProperty", "=", "a", "/", "b", "&", "sortOrder", "=", "desc">>
Queries == {NoText, SortQuery, PathQuery}

Url(name, query) ==
  Origin \o Route \o name \o (IF query = NoText THEN <<>> ELSE <<"?">> \o query)

Urls == {Url(n, q) : n \in Names, q \in Queries}

NoAnswers == [q \in {} |-> <<>>]

\* One request to the route handler.
Init ==
  /\ db = NoAnswers
  /\ \E kind \in {"GET", "DELETE"}, u \in Urls : h = [r \in {1} |-> InitRun(kind, u)]

Next ==
  \/ \E r \in DOMAIN h : GET_begin(r)
  \/ \E r \in DOMAIN h : getCollections_schema(r)
  \/ \E r \in DOMAIN h : getCollections_count(r)
  \/ \E r \in DOMAIN h : GET_collections(r)
  \/ \E r \in DOMAIN h : GET_data(r)
  \/ \E r \in DOMAIN h : DELETE_begin(r)
  \/ \E r \in DOMAIN h : DELETE_settled(r)

Spec == Init /\ [][Next]_vars

\* One load of the dashboard page.  The steps of the page itself are taken
\* when they can be (the event loop runs a continuation that is ready); the
\* database need not answer.
InitPage ==
  /\ db = NoAnswers
  /\ h = [r \in {1} |-> InitRun("PAGE", NoText)]

NextPage ==
  \/ \E r \in DOMAIN h : Home_mount(r)
  \/ \E r \in DOMAIN h : getCollections_schema(r)
  \/ \E r \in DOMAIN h : getCollections_count(r)
  \/ \E r \in DOMAIN h : fetchCollections_settled(r)

SpecPage ==
  /\ InitPage /\ [][NextPage]_vars
  /\ WF_vars(Home_mount(1)) /\ WF_vars(fetchCollections_settled(1))

\* Two GET requests for the same path, one after the other, against one
\* database state.
InitPair ==
  /\ db = NoAnswers
  /\ \E n \in Names, q1, q2 \in Queries :
       /\ <<q1, q2>> \in {<<NoText, SortQuery>>, <<SortQuery, PathQuery>>}
       /\ h = [r \in {1, 2} |-> InitRun("GET", Url(n, IF r = 1 THEN q1 ELSE q2))]

\* The second request is handled once the first has been answered.
Turn(r) == r = 1 \/ h[1].pc = "done"

NextPair ==
  \/ \E r \in DOMAIN h : Turn(r) /\ GET_begin(r)
  \/ \E r \in DOMAIN h : Turn(r) /\ getCollections_schema(r)
  \/ \E r \in DOMAIN h : Turn(r) /\ getCollections_count(r)
  \/ \E r \in DOMAIN h : Turn(r) /\ GET_collections(r)
  \/ \E r \in DOMAIN h : Turn(r) /\ GET_data(r)

SpecPair == InitPair /\ [][NextPair]_vars

\* ----------------------------------------------------------- properties
IsAggregate(q) == q.kind = "Aggregate"
IsGet(q) == q.kind = "Get"

AggregatesOf(rec) == SelectSeq(rec.log, IsAggregate)
GetsOf(rec) == SelectSeq(rec.log, IsGet)

\* The schema request of the run has been answered, with a class list.
SchemaOk(rec) ==
  /\ rec.pc \notin {"start", "schema"}
  /\ SchemaRequest \in DOMAIN db
  /\ db[SchemaRequest][1] \in {"classes", "noclasses"}

SchemaFailed(rec) ==
  /\ rec.calls = 1 /\ rec.pc \notin {"start", "schema"}
  /\ SchemaRequest \in DOMAIN db
  /\ db[SchemaRequest][1] \in FetchFailures

DeclaredNames(a) == IF a[1] = "classes" THEN a[2] ELSE <<>>

\* The ways an aggregate query fails: the request, the status, the body, or
\* the envelope of the parsed body.
AggregateFailures == FetchFailures \cup {"nodata", "noaggregate"}

\* C1: whenever the schema answer lists N classes, getCollections settles by
\* returning exactly N entries, the i-th named as the i-th class of the
\* schema, whatever the aggregate queries ended in.
C1_OneEntryPerClassInOrder ==
  \A r \in DOMAIN h :
    (SchemaOk(h[r]) /\ h[r].gc.st # "pending") =>
      LET declared == DeclaredNames(db[SchemaRequest]) IN
      /\ h[r].gc.st = "ok"
      /\ Len(h[r].gc.val) = Len(declared)
      /\ \A k \in 1..Len(declared) : h[r].gc.val[k].name = declared[k]

\* C2: an aggregate query that fails in any way yields the count 0 for its
\* class, and the failure never propagates out of getCollections.
C2_FailedCountIsZero ==
  \A r \in DOMAIN h :
    \A k \in 1..Len(h[r].classes) :
      LET className == h[r].classes[k].class
          q == AggregateQuery(className)
      IN (/\ q \in DOMAIN db
          /\ db[q][1] \in AggregateFailures
          /\ h[r].pc \notin {"start", "schema"}
          /\ (h[r].pc = "aggregate" => h[r].i > k)) =>
           /\ getObjectCount(className, db[q]) = Return(0)
           /\ h[r].gc.st # "throw"
           /\ Len(h[r].result) >= k
           /\ h[r].result[k].name = className
           /\ h[r].result[k].count = 0

\* C3: when the schema fetch fails, getCollections throws the error, returns
\* no list, and sends no aggregate query.
C3_SchemaFailurePropagates ==
  \A r \in DOMAIN h :
    SchemaFailed(h[r]) =>
      /\ h[r].gc.st = "throw"
      /\ h[r].gc.val = <<>> /\ h[r].result = <<>>
      /\ h[r].gc.err # NoText
      /\ (db[SchemaRequest][1] = "http" =>
            h[r].gc.err = <<"Failed to fetch schema: ", StatusText>>)
      /\ AggregatesOf(h[r]) = <<>>
      /\ h[r].log = <<SchemaRequest>>

C3_Witness ==
  \E r \in DOMAIN h :
    /\ SchemaFailed(h[r]) /\ db[SchemaRequest][1] = "http"
    /\ h[r].pc = "done" /\ h[r].gc.st = "throw"

\* C4: getCollectionData throws when the call fails or the body lacks data
\* or data.Get, returns the empty sequence when data.Get has no entry for
\* the class, and returns the entry unchanged otherwise.
C4_ThreeOutcomes ==
  \A r \in DOMAIN h :
    h[r].gd.st # "pending" =>
      LET q == GetsOf(h[r])[1]
          a == db[q]
      IN /\ q.class = h[r].name
         /\ a[1] \in FetchFailures \cup {"nodata", "noget"} =>
              h[r].gd.st = "throw" /\ h[r].gd.err # NoText
         /\ a[1] = "noentry" => h[r].gd = Return(<<>>)
         /\ a[1] = "rows" => h[r].gd = Return(a[2])

C4_Witness ==
  \E r \in DOMAIN h :
    /\ h[r].gd.st = "throw"
    /\ db[GetsOf(h[r])[1]][1] = "noget"

\* C5: a GET for a name that is in no entry of the catalog returned ends in
\* 404 {error: "Collection not found"} without any Get query; a Get query
\* is only ever sent for a name found in the catalog.
InCatalog(rec, name) ==
  \E k \in 1..Len(rec.gc.val) : rec.gc.val[k].name = name

C5_UnknownNameIs404 ==
  \A r \in DOMAIN h :
    /\ (/\ h[r].kind = "GET" /\ h[r].gc.st = "ok" /\ h[r].pc # "gc_return"
        /\ ~InCatalog(h[r], Pop(Split(Pathname(h[r].url), "/")))) =>
         /\ h[r].resp = <<[status |-> 404, body |-> [error |-> "Collection not found"]]>>
         /\ GetsOf(h[r]) = <<>>
         /\ h[r].gd.st = "pending"
    /\ GetsOf(h[r]) # <<>> =>
         /\ h[r].gc.st = "ok"
         /\ InCatalog(h[r], GetsOf(h[r])[1].class)

C5_Witness ==
  \E r \in DOMAIN h :
    /\ h[r].kind = "GET" /\ h[r].gc.st = "ok" /\ h[r].pc = "done"
    /\ Len(h[r].gc.val) > 0
    /\ ~InCatalog(h[r], h[r].name)
    /\ h[r].resp[1].status = 404

\* C6: a DELETE whose last path segment is empty ends in 400 without any
\* call of deleteCollection; otherwise deleteCollection is called once, with
\* exactly the last path segment, and its success ends in 200
\* {success: true}.
C6_DeleteNameIsLastPathSegment ==
  \A r \in DOMAIN h :
    (h[r].kind = "DELETE" /\ h[r].pc # "start") =>
      LET segment == Pop(Split(Pathname(h[r].url), "/")) IN
      /\ segment = NoText =>
           /\ h[r].log = <<>>
           /\ h[r].resp = <<[status |-> 400,
                             body |-> [error |-> "Collection name is required"]]>>
      /\ segment # NoText => h[r].log = <<DeleteRequest(segment)>>
      /\ (h[r].pc = "done" /\ h[r].del.st = "ok") =>
           h[r].resp = <<[status |-> 200, body |-> [success |-> TRUE]]>>

\* C7: a request ends in exactly one response, of the statuses of its
\* method, and nothing is sent once it is given; a failure propagated by
\* getCollections, getCollectionData or deleteCollection ends in 500 with a
\* generic error and the message thrown as details, never in 200.
Thrown(rec) ==
  IF rec.gc.st = "throw" THEN rec.gc
  ELSE IF rec.gd.st = "throw" THEN rec.gd
  ELSE rec.del

C7_Terminal(rec) ==
  /\ Len(rec.resp) <= 1
  /\ (rec.pc = "done") = (Len(rec.resp) = 1)
  /\ rec.pc = "done" =>
       LET status == rec.resp[1].status
           body == rec.resp[1].body
       IN /\ rec.out = <<>>
          /\ rec.kind = "GET" => status \in {200, 400, 404, 500}
          /\ rec.kind = "DELETE" => status \in {200, 400, 500}
          /\ (rec.kind = "GET" /\ status = 200) =>
               rec.gd.st = "ok" /\ body = [data |-> rec.gd.val]
          /\ (rec.kind = "DELETE" /\ status = 200) =>
               rec.del.st = "ok" /\ body = [success |-> TRUE]
          /\ (status = 500) = (Thrown(rec).st = "throw")
          /\ status = 500 =>
               /\ DOMAIN body = {"error", "details"}
               /\ body.error = (IF rec.kind = "GET" THEN "Failed to fetch data"
                                ELSE "Failed to delete collection")
               /\ body.details = Thrown(rec).err
               /\ body.details # NoText

C7_OneTerminalResponse ==
  /\ [](\A r \in DOMAIN h : C7_Terminal(h[r]))
  /\ [][\A r \in DOMAIN h :
          h[r].resp # <<>> => (h'[r].log = h[r].log /\ h'[r].resp = h[r].resp)]_vars

C7_Witness ==
  \E r \in DOMAIN h :
    /\ h[r].kind = "GET" /\ h[r].pc = "done"
    /\ h[r].gd.st = "throw"
    /\ h[r].resp[1].status = 500

\* C8: the page starts with loading = true, error = null and no
\* collections; getCollections is called once; when the call has settled,
\* loading becomes false; on success the collections are the list returned
\* and error is null, on failure error is the message and the collections
\* are still empty; the list is not rendered while loading.
C8_Page(rec) ==
  /\ rec.pc = "start" =>
       rec.loading /\ rec.error = Null /\ rec.collections = <<>> /\ rec.calls = 0
  /\ rec.pc # "start" =>
       rec.calls = 1 /\ Len(SelectSeq(rec.log, LAMBDA q : q.kind = "schema")) = 1
  /\ rec.pc # "done" => rec.loading /\ rec.error = Null /\ rec.collections = <<>>
  /\ rec.loading => View(rec) # "list"
  /\ (rec.pc = "done" /\ rec.gc.st = "ok") =>
       /\ rec.collections = rec.gc.val
       /\ rec.error = Null
       /\ ~rec.loading
  /\ (rec.pc = "done" /\ rec.gc.st = "throw") =>
       /\ ~rec.error.isNull /\ rec.error.message = rec.gc.err
       /\ Banner(rec)
       /\ rec.collections = <<>>
       /\ ~rec.loading

C8_PageLoad ==
  /\ [](\A r \in DOMAIN h : C8_Page(h[r]))
  /\ \A r \in {1} : (h[r].gc.st # "pending") ~> (~h[r].loading)

C8_Witness ==
  \E r \in DOMAIN h :
    /\ h[r].kind = "PAGE" /\ h[r].pc = "done"
    /\ h[r].gc.st = "throw" /\ ~h[r].loading

\* C9: two GET requests for the same collection that differ in the sort
\* parameters only send the same requests and get the same response.
C9_SortDoesNotInfluence ==
  (\A r \in DOMAIN h : h[r].pc = "done") =>
    \A r1, r2 \in DOMAIN h :
      /\ h[r1].log = h[r2].log
      /\ h[r1].resp = h[r2].resp

C9_Witness ==
  /\ DOMAIN h = {1, 2}
  /\ \A r \in DOMAIN h : h[r].pc = "done" /\ GetsOf(h[r]) # <<>>
  /\ h[1].sortProperty # h[2].sortProperty
  /\ h[1].sortProperty = NoText
  /\ h[1].resp[1].status = 200

\* C10: the requests of one getCollections call go out one at a time: the
\* schema request first, then one aggregate request for each declared class
\* in schema order, none of them sent twice.
C10_OneRequestPerClassInTurn ==
  \A r \in DOMAIN h :
    /\ Len(h[r].out) <= 1
    /\ h[r].calls = 1 =>
         /\ h[r].log[1] = SchemaRequest
         /\ Len(SelectSeq(h[r].log, LAMBDA q : q.kind = "schema")) = 1
    /\ (SchemaOk(h[r]) /\ h[r].gc.st # "pending") =>
         AggregatesOf(h[r]) =
           [k \in 1..Len(h[r].classes) |-> AggregateQuery(h[r].classes[k].class)]

====
